---- MODULE Spec2Model ----
(***************************************************************************)
(* Model of the boundary_auth_method resource of the Terraform provider    *)
(* for Boundary: internal/provider/resource_auth_method.go.                *)
(*                                                                         *)
(* The four lifecycle handlers (Create, Read, Update, Delete) and the      *)
(* response decoder setFromAuthMethodResponseMap are translated from the   *)
(* source.  The ResourceData accessor (d.Get, d.GetOk, d.HasChange, d.Set, *)
(* d.SetId) is modelled as a flat key/value store; the remote service is   *)
(* the environment: it answers every call with a record, a structured 404, *)
(* another structured error, a transport failure or a nil response.        *)
(***************************************************************************)
EXTENDS Integers, Sequences, FiniteSets, TLC

VARIABLES
    local,      \* the ResourceData d the handlers work on: id and fields
    remote,     \* the remote service: id -> auth method record or NoRecord
    nextId,     \* index of the next id the remote service assigns
    observed,   \* version carried by the last response the handlers received
    last        \* what the last step did: handler, diagnostics, remote calls

vars == <<local, remote, nextId, observed, last>>

----------------------------------------------------------------------------
(* Bounds of the model.                                                    *)

\* number of ids the remote service hands out
MaxIds == 1
\* highest version a remote record reaches
MaxVersion == 3

----------------------------------------------------------------------------
(* Keys: the constants of resource_auth_method.go lines 16-36 and the keys *)
(* of the shared schema (NameKey, DescriptionKey, ScopeIdKey, TypeKey).    *)

NameKey == "name"
DescriptionKey == "description"
ScopeIdKey == "scope_id"
TypeKey == "type"
authmethodTypePassword == "password"
authmethodMinLoginNameLengthKey == "min_login_name_length"
authmethodMinPasswordLengthKey == "min_password_length"
authmethodTypeOidc == "oidc"
authmethodOidcStateKey == "state"
authmethodOidcIssuerKey == "issuer"
authmethodOidcClientIdKey == "client_id"
authmethodOidcClientSecretKey == "client_secret"
authmethodOidcClientSecretHmacKey == "client_secret_hmac"
authmethodOidcMaxAgeKey == "max_age"
authmethodOidcSigningAlgorithmsKey == "signing_algorithms"
authmethodOidcApiUrlPrefixKey == "api_url_prefix"
authmethodOidcCallbackUrlKey == "callback_url"
authmethodOidcCaCertificatesKey == "ca_certificates"
authmethodOidcAllowedAudiencesKey == "allowed_audiences"
authmethodOidcDisableDiscoveredConfigValidationKey == "disable_discovered_config_validation"

\* keys whose value is a string, an int, a list of strings, a bool
StringKeys ==
    {NameKey, DescriptionKey, ScopeIdKey, TypeKey, authmethodOidcStateKey,
     authmethodOidcIssuerKey, authmethodOidcClientIdKey,
     authmethodOidcClientSecretKey, authmethodOidcClientSecretHmacKey,
     authmethodOidcApiUrlPrefixKey, authmethodOidcCallbackUrlKey}
IntKeys ==
    {authmethodMinLoginNameLengthKey, authmethodMinPasswordLengthKey,
     authmethodOidcMaxAgeKey}
ListKeys ==
    {authmethodOidcSigningAlgorithmsKey, authmethodOidcCaCertificatesKey,
     authmethodOidcAllowedAudiencesKey}
BoolKeys == {authmethodOidcDisableDiscoveredConfigValidationKey}
FieldKeys == StringKeys \cup IntKeys \cup ListKeys \cup BoolKeys

\* Required: true (scope_id, type) - the other keys are Optional
RequiredKeys == {ScopeIdKey, TypeKey}
\* Optional without Computed: unset in the configuration reads as zero
PlainOptionalKeys == {NameKey, DescriptionKey}
\* Optional and Computed: unset in the configuration keeps the stored value
ComputedKeys == FieldKeys \ (RequiredKeys \cup PlainOptionalKeys)
\* ForceNew: true
ForceNewKeys == {ScopeIdKey, TypeKey}

\* the zero value of every key (what d.Get returns for an unset key)
ZeroFields ==
    [k \in FieldKeys |->
        IF k \in IntKeys THEN 0
        ELSE IF k \in ListKeys THEN <<>>
        ELSE IF k \in BoolKeys THEN FALSE
        ELSE ""]

\* a ResourceData with no id and no field set
EmptyData == [id |-> "", f |-> ZeroFields]

----------------------------------------------------------------------------
(* Diagnostics the handlers return, by the text of the source.             *)

NoError == "none"
ErrNoType == "no type provided"
ErrNoScopeId == "no scope ID provided"
errorInvalidAuthMethodType == "invalid auth method type"
ErrCreate == "error creating auth method"
ErrNilCreate == "nil auth method after create"
ErrRead == "error reading auth method"
ErrNilRead == "auth method nil after read"
ErrUpdate == "error updating auth method"
ErrDelete == "error deleting auth method"
\* the handler did not return: a failed type assertion or a nil dereference
Panic == "panic"

----------------------------------------------------------------------------
(* Strings whose whitespace matters (list elements) are sequences of       *)
(* one-character strings, so that strings.TrimSpace can be computed.       *)

WhiteSpace == {" ", "\n", "\t"}

RECURSIVE TrimLeft(_)
TrimLeft(s) ==
    IF s = <<>> THEN <<>>
    ELSE IF Head(s) \in WhiteSpace THEN TrimLeft(Tail(s))
    ELSE s

RECURSIVE TrimRight(_)
TrimRight(s) ==
    IF s = <<>> THEN <<>>
    ELSE IF s[Len(s)] \in WhiteSpace THEN TrimRight(SubSeq(s, 1, Len(s) - 1))
    ELSE s

\* strings.TrimSpace
TrimSpace(s) == TrimRight(TrimLeft(s))

\* the loop "for _, c := range list { out = append(out, strings.TrimSpace(c)) }"
TrimAll(list) == [i \in 1..Len(list) |-> TrimSpace(list[i])]

\* uint32(x) of an int: the value itself for the ints of the model, which
\* lie in 0 .. 2^31 - 1 (a negative int would wrap around 2^32)
Uint32(x) == x

----------------------------------------------------------------------------
(* Values of a response's attribute map (map[string]interface{}): every    *)
(* value carries its dynamic type, which the decoder's type assertions     *)
(* test.  A key that is not in the map reads as nil.                       *)

NumV(n) == [t |-> "num", n |-> n, s |-> "", b |-> FALSE, l |-> <<>>]
StrV(s) == [t |-> "str", n |-> 0, s |-> s, b |-> FALSE, l |-> <<>>]
BoolV(b) == [t |-> "bool", n |-> 0, s |-> "", b |-> b, l |-> <<>>]
ListV(l) == [t |-> "list", n |-> 0, s |-> "", b |-> FALSE, l |-> l]

\* the comma-less type assertion attrs[k].(T) succeeds
IsA(attrs, k, t) == k \in DOMAIN attrs /\ attrs[k].t = t

\* json.Number.Int64() with the error dropped; the service sends integers
Int64(v) == v.n

\* the empty attribute map
NoAttrs == [k \in {} |-> NumV(0)]

\* the response map of a call that returned none
NoRaw ==
    [id |-> "", name |-> "", description |-> "", scope_id |-> "", type |-> "",
     version |-> 0, hasAttrs |-> FALSE, attrs |-> NoAttrs]

----------------------------------------------------------------------------
(* d.GetOk, d.HasChange and the values d holds when a handler starts.      *)

\* d.GetOk(k): ok is false for the zero value of the key's type
GetOk(f, k) == f[k] # ZeroFields[k]

\* d.HasChange(k), old the stored fields and new the planned ones
HasChange(old, new, k) == old[k] # new[k]

\* the keys d.HasChange reports
ChangedKeys(old, new) == {k \in FieldKeys : HasChange(old, new, k)}

\* The fields d holds in Create and Update: the configured value of a key;
\* an Optional+Computed key the configuration leaves out keeps the stored
\* value, any other key left out reads as zero.
Planned(old, cfg) ==
    [k \in FieldKeys |->
        IF k \in cfg.set THEN cfg.v[k]
        ELSE IF k \in ComputedKeys THEN old[k]
        ELSE ZeroFields[k]]

----------------------------------------------------------------------------
(* Options of a remote create or update request.  A request holds, per     *)
(* key, whether it carries the key's Default...() option (reset to the     *)
(* default), whether it carries its With...() option, and the value set.   *)
(* The entry under client_secret_hmac is the WithOidcAuthMethodClientSecret *)
(* option that Update builds from the stored HMAC (lines 490-494).         *)

OptionKeys ==
    {NameKey, DescriptionKey, authmethodMinLoginNameLengthKey,
     authmethodMinPasswordLengthKey, authmethodOidcIssuerKey,
     authmethodOidcClientIdKey, authmethodOidcClientSecretKey,
     authmethodOidcMaxAgeKey, authmethodOidcSigningAlgorithmsKey,
     authmethodOidcApiUrlPrefixKey, authmethodOidcClientSecretHmacKey,
     authmethodOidcAllowedAudiencesKey, authmethodOidcCaCertificatesKey,
     authmethodOidcDisableDiscoveredConfigValidationKey}

NoOption(k) == [def |-> FALSE, set |-> FALSE, val |-> ZeroFields[k]]
NoOptions == [k \in OptionKeys |-> NoOption(k)]

\* len(opts)
NumOptions(opts) ==
    Cardinality({k \in OptionKeys : opts[k].def})
        + Cardinality({k \in OptionKeys : opts[k].set})

\* the value an option carries for a key: uint32(...) of an int, the
\* trimmed elements of ca_certificates, the value itself otherwise
OptionValue(k, v) ==
    IF k \in IntKeys THEN Uint32(v)
    ELSE IF k = authmethodOidcCaCertificatesKey THEN TrimAll(v)
    ELSE v

\* the keys Create reads for a type (lines 293-357; name and description
\* at lines 359-369)
PasswordCreateKeys ==
    {authmethodMinLoginNameLengthKey, authmethodMinPasswordLengthKey}
OidcCreateKeys ==
    {authmethodOidcIssuerKey, authmethodOidcClientIdKey,
     authmethodOidcClientSecretKey, authmethodOidcMaxAgeKey,
     authmethodOidcApiUrlPrefixKey, authmethodOidcCaCertificatesKey,
     authmethodOidcAllowedAudiencesKey,
     authmethodOidcDisableDiscoveredConfigValidationKey,
     authmethodOidcSigningAlgorithmsKey}

CreateKeys(typeStr) ==
    {NameKey, DescriptionKey}
        \cup (IF typeStr = authmethodTypePassword THEN PasswordCreateKeys
              ELSE IF typeStr = authmethodTypeOidc THEN OidcCreateKeys
              ELSE {})

\* opts of resourceAuthMethodCreate: a With option for every key of the
\* type's branch for which d.GetOk is ok
CreateOptions(f) ==
    [k \in OptionKeys |->
        IF k \in CreateKeys(f[TypeKey]) /\ GetOk(f, k)
        THEN [def |-> FALSE, set |-> TRUE, val |-> OptionValue(k, f[k])]
        ELSE NoOption(k)]

\* the keys Update resets with a Default option when they changed
ResettableKeys(typeStr) ==
    {NameKey, DescriptionKey}
        \cup (IF typeStr = authmethodTypePassword THEN PasswordCreateKeys ELSE {})

\* the keys Update tests with d.HasChange for a type (lines 424-513)
UpdateKeys(typeStr) ==
    {NameKey, DescriptionKey}
        \cup (IF typeStr = authmethodTypePassword THEN PasswordCreateKeys
              ELSE IF typeStr = authmethodTypeOidc
              THEN OidcCreateKeys \cup {authmethodOidcClientSecretHmacKey}
              ELSE {})

\* an Update that builds the options of every key that holds a value,
\* changed or not
UpdateOptionsAll(old, new) ==
    [k \in OptionKeys |->
        IF k \in UpdateKeys(new[TypeKey]) /\ GetOk(new, k)
        THEN [def |-> k \in ResettableKeys(new[TypeKey]), set |-> TRUE,
              val |-> OptionValue(k, new[k])]
        ELSE NoOption(k)]

\* opts of resourceAuthMethodUpdate before the version marker is appended
UpdateOptions(old, new) ==
    [k \in OptionKeys |->
        IF k \in UpdateKeys(new[TypeKey]) /\ HasChange(old, new, k)
        THEN [def |-> k \in ResettableKeys(new[TypeKey]),
              set |-> GetOk(new, k),
              val |-> IF GetOk(new, k) THEN OptionValue(k, new[k])
                      ELSE ZeroFields[k]]
        ELSE NoOption(k)]

\* Update asserts val.([]string) on the list d.GetOk returns (lines 482,
\* 497, 503); Create asserts []interface{} on the same accessor (lines 331,
\* 339, 349), so the assertion of Update fails whenever it is reached.
UpdatePanics(old, new) ==
    /\ new[TypeKey] = authmethodTypeOidc
    /\ \E k \in ListKeys : HasChange(old, new, k) /\ GetOk(new, k)

----------------------------------------------------------------------------
(* setFromAuthMethodResponseMap (lines 180-280).                           *)

\* a type switch with a third branch
ValidTypesWithLdap == {authmethodTypePassword, authmethodTypeOidc, "ldap"}

ValidTypes == {authmethodTypePassword, authmethodTypeOidc}

\* lines 181-192: set from the top level of the response map
CommonKeys == {NameKey, DescriptionKey, ScopeIdKey, TypeKey}

\* lines 216-220, 226, 232, 253: read without testing for the key
OidcAlwaysKeys ==
    {authmethodOidcStateKey, authmethodOidcIssuerKey, authmethodOidcClientIdKey,
     authmethodOidcClientSecretHmacKey, authmethodOidcCaCertificatesKey,
     authmethodOidcAllowedAudiencesKey, authmethodOidcMaxAgeKey}

\* lines 258-261: decoded only if the key is in the map, asserted string
sometimesString ==
    {authmethodOidcApiUrlPrefixKey, authmethodOidcCallbackUrlKey,
     authmethodOidcDisableDiscoveredConfigValidationKey}

\* the dynamic type each assertion of the decoder demands
AssertedType(k) ==
    IF k \in sometimesString THEN "str"
    ELSE IF k \in IntKeys THEN "num"
    ELSE IF k \in ListKeys THEN "list"
    ELSE "str"

\* a type assertion of the decoder fails on this response
DecodePanics(raw) ==
    /\ raw.hasAttrs
    /\ \/ /\ raw.type = authmethodTypePassword
          /\ \E k \in PasswordCreateKeys : ~IsA(raw.attrs, k, AssertedType(k))
       \/ /\ raw.type = authmethodTypeOidc
          /\ \/ \E k \in OidcAlwaysKeys : ~IsA(raw.attrs, k, AssertedType(k))
             \/ \E k \in sometimesString \cup {authmethodOidcSigningAlgorithmsKey} :
                    k \in DOMAIN raw.attrs /\ ~IsA(raw.attrs, k, AssertedType(k))

\* The keys the decoder stores.  d.Set of a string under the bool key
\* disable_discovered_config_validation fails and its error is dropped
\* (line 265), so that key is never stored.
DecodedKeys(raw) ==
    CommonKeys
        \cup (IF ~raw.hasAttrs THEN {}
              ELSE IF raw.type = authmethodTypePassword THEN PasswordCreateKeys
              ELSE IF raw.type = authmethodTypeOidc
              THEN OidcAlwaysKeys
                    \cup {k \in {authmethodOidcApiUrlPrefixKey,
                                 authmethodOidcCallbackUrlKey,
                                 authmethodOidcSigningAlgorithmsKey} :
                              k \in DOMAIN raw.attrs}
              ELSE {})

\* a decoder that stores list elements as the service sent them
DecodedValueUntrimmed(k, raw) ==
    IF k \in CommonKeys THEN raw[k]
    ELSE IF k \in IntKeys THEN Int64(raw.attrs[k])
    ELSE IF k \in ListKeys THEN raw.attrs[k].l
    ELSE raw.attrs[k].s

\* the value the decoder stores under a key
DecodedValue(k, raw) ==
    IF k \in CommonKeys THEN raw[k]
    ELSE IF k \in IntKeys THEN Int64(raw.attrs[k])
    ELSE IF k \in {authmethodOidcCaCertificatesKey, authmethodOidcAllowedAudiencesKey}
         THEN TrimAll(raw.attrs[k].l)
    ELSE IF k \in ListKeys THEN raw.attrs[k].l
    ELSE raw.attrs[k].s

\* the id the decoder stores at line 278
DecodedId(raw) == raw.id

\* The decoder: d after it, its error and the keys it wrote ("id" for
\* d.SetId).  A panic leaves nothing behind: the handler never returns.
setFromAuthMethodResponseMap(d, raw) ==
    IF DecodePanics(raw)
    THEN [d |-> d, err |-> Panic, wrote |-> {}]
    ELSE IF raw.type \notin ValidTypes
    THEN [d |-> [d EXCEPT !.f = [k \in FieldKeys |->
                        IF k \in CommonKeys THEN raw[k] ELSE d.f[k]]],
          err |-> errorInvalidAuthMethodType,
          wrote |-> CommonKeys]
    ELSE [d |-> [id |-> DecodedId(raw),
                 f |-> [k \in FieldKeys |->
                        IF k \in DecodedKeys(raw) THEN DecodedValue(k, raw)
                        ELSE d.f[k]]],
          err |-> NoError,
          wrote |-> DecodedKeys(raw) \cup {"id"}]

----------------------------------------------------------------------------
(* The remote service, seen through authmethods.Client.  A record holds    *)
(* its version and its fields; the response map is built from them.        *)

IdNames == <<"am_1", "am_2", "am_3", "am_4">>
Ids == {IdNames[i] : i \in 1..MaxIds}

NoRecord == [present |-> FALSE, version |-> 0, f |-> ZeroFields]

\* the values the service gives a field that no option sets
ServerDefaults ==
    [ZeroFields EXCEPT ![authmethodMinLoginNameLengthKey] = 3,
                       ![authmethodMinPasswordLengthKey] = 8]

\* the service returns an HMAC of the client secret, never the secret
Hmac(secret) == IF secret = "" THEN "" ELSE "hmac-of-" \o secret

\* fields the service derives from others
Derived(f) ==
    [f EXCEPT ![authmethodOidcClientSecretHmacKey] =
                    Hmac(f[authmethodOidcClientSecretKey]),
              ![authmethodOidcCallbackUrlKey] =
                    IF f[authmethodOidcApiUrlPrefixKey] = "" THEN ""
                    ELSE f[authmethodOidcApiUrlPrefixKey] \o "/callback"]

\* The fields of a record after the options of a request are applied, in
\* the order the handler appended them: a With option after a Default
\* option of the same key wins, and the client secret option built from
\* the HMAC comes after the one built from client_secret.
ApplyOptions(f, opts) ==
    Derived(
        [k \in FieldKeys |->
            IF k = authmethodOidcClientSecretKey
            THEN IF opts[authmethodOidcClientSecretHmacKey].set
                 THEN opts[authmethodOidcClientSecretHmacKey].val
                 ELSE IF opts[k].set THEN opts[k].val ELSE f[k]
            ELSE IF k \in OptionKeys \ {authmethodOidcClientSecretHmacKey}
            THEN IF opts[k].set THEN opts[k].val
                 ELSE IF opts[k].def THEN ServerDefaults[k] ELSE f[k]
            ELSE f[k]])

\* the fields of a record the service creates
NewRecordFields(typeStr, scopeId, opts) ==
    ApplyOptions(
        [k \in FieldKeys |->
            IF k = TypeKey THEN typeStr
            ELSE IF k = ScopeIdKey THEN scopeId
            ELSE IF k = authmethodOidcStateKey /\ typeStr = authmethodTypeOidc
                 THEN "inactive"
            ELSE IF k \in PasswordCreateKeys /\ typeStr = authmethodTypePassword
                 THEN ServerDefaults[k]
            ELSE ZeroFields[k]],
        opts)

\* "the API can return a value with an extra newline to the top of values
\* that are in string arrays" (lines 222-224)
Echoed(list) == [i \in 1..Len(list) |-> <<"\n">> \o list[i]]

\* The keys of the attribute map of a response.  The service leaves out
\* the optional OIDC attributes that hold no value.
ResponseKeys(f) ==
    IF f[TypeKey] = authmethodTypePassword THEN PasswordCreateKeys
    ELSE IF f[TypeKey] = authmethodTypeOidc
    THEN {authmethodOidcStateKey, authmethodOidcIssuerKey,
          authmethodOidcClientIdKey, authmethodOidcClientSecretHmacKey}
            \cup {k \in (OidcCreateKeys \cup {authmethodOidcCallbackUrlKey})
                            \ {authmethodOidcClientSecretKey} :
                        f[k] # ZeroFields[k]}
    ELSE {}

ResponseValue(k, f) ==
    IF k \in IntKeys THEN NumV(f[k])
    ELSE IF k \in BoolKeys THEN BoolV(f[k])
    ELSE IF k = authmethodOidcSigningAlgorithmsKey THEN ListV(f[k])
    ELSE IF k \in ListKeys THEN ListV(Echoed(f[k]))
    ELSE StrV(f[k])

\* GetResponse().Map of a response for the record rec stored under id
ResponseMap(id, rec) ==
    [id |-> id,
     name |-> rec.f[NameKey],
     description |-> rec.f[DescriptionKey],
     scope_id |-> rec.f[ScopeIdKey],
     type |-> rec.f[TypeKey],
     version |-> rec.version,
     hasAttrs |-> TRUE,
     attrs |-> [k \in ResponseKeys(rec.f) |-> ResponseValue(k, rec.f)]]

Exists(id) == id \in Ids /\ remote[id].present

----------------------------------------------------------------------------
(* What a remote call can answer.  A fault is chosen by the environment:   *)
(* no fault (the service answers: the record, or a structured 404 when it  *)
(* holds none), a structured error other than 404, a transport failure     *)
(* that carries no server response, or a nil result with a nil error.      *)

ReplyNone == "no call"
ReplyOk == "ok"
ReplyNotFound == "404"
ReplyRejected == "rejected"
ReplyTransport == "transport"
ReplyNil == "nil"
ReplyConflict == "version mismatch"

\* replies that come with a non-nil err
ErrorReplies == {ReplyNotFound, ReplyRejected, ReplyTransport, ReplyConflict}

Faults == {"none", ReplyRejected, ReplyTransport, ReplyNil}
\* Update and Delete do not look at the result, only at err
ErrFaults == {"none", ReplyRejected, ReplyTransport}

\* the reply to a call on an existing or missing record under a fault
ReplyTo(id, fault) ==
    IF fault # "none" THEN fault
    ELSE IF Exists(id) THEN ReplyOk
    ELSE ReplyNotFound

\* The outcome of a handler: d after it, the diagnostics, the remote calls
\* it issued, the reply, the keys it wrote with d.Set / d.SetId, the
\* request it sent, the response map it got, and the service afterwards
Outcome(d, err, calls, reply, wrote, opts, req, raw, store) ==
    [d |-> d, err |-> err, calls |-> calls, reply |-> reply, wrote |-> wrote,
     opts |-> opts, req |-> req, raw |-> raw, store |-> store]

\* no version sent (Create, Read, Delete send none)
NoVersioning == [version |-> 0, auto |-> FALSE]

----------------------------------------------------------------------------
(* resourceAuthMethodCreate (lines 282-393).                               *)

\* a Create that does not test scope_id
CreateValidationNoScope(f) ==
    IF ~GetOk(f, TypeKey) THEN ErrNoType
    ELSE IF f[TypeKey] \notin ValidTypes THEN errorInvalidAuthMethodType
    ELSE NoError

\* what Create returns before it calls the service (lines 285-290, 293,
\* 355-357, 371-376), NoError when it goes on to the call
CreateValidation(f) ==
    IF ~GetOk(f, TypeKey) THEN ErrNoType
    ELSE IF f[TypeKey] \notin ValidTypes THEN errorInvalidAuthMethodType
    ELSE IF ~GetOk(f, ScopeIdKey) THEN ErrNoScopeId
    ELSE NoError

\* a Create that does not test the result for nil
CreateReplyErrorNoNil(reply) ==
    IF reply \in ErrorReplies THEN ErrCreate ELSE NoError

\* lines 380-386: the diagnostics for a reply of amClient.Create
CreateReplyError(reply) ==
    IF reply \in ErrorReplies THEN ErrCreate
    ELSE IF reply = ReplyNil THEN ErrNilCreate
    ELSE NoError

resourceAuthMethodCreate(d, fault, newId) ==
    LET f == d.f
        opts == CreateOptions(f)
        reply == IF fault = "none" THEN ReplyOk ELSE fault
        rec == [present |-> TRUE, version |-> 1,
                f |-> NewRecordFields(f[TypeKey], f[ScopeIdKey], opts)]
        store == [remote EXCEPT ![newId] = rec]
        raw == ResponseMap(newId, rec)
        dec == setFromAuthMethodResponseMap(d, raw)
    IN  IF CreateValidation(f) # NoError
        THEN Outcome(d, CreateValidation(f), 0, ReplyNone, {}, NoOptions,
                     NoVersioning, NoRaw, remote)
        ELSE IF CreateReplyError(reply) # NoError
        THEN Outcome(d, CreateReplyError(reply), 1, reply, {}, opts,
                     NoVersioning, NoRaw, remote)
        ELSE Outcome(dec.d, dec.err, 1, reply, dec.wrote, opts,
                     NoVersioning, raw, store)

----------------------------------------------------------------------------
(* resourceAuthMethodRead (lines 395-416).                                 *)

\* api.AsServerError(err) is nil unless err is an error of the service
\* (the test file guards "apiErr == nil ||" at line 176)
AsServerErrorIsNil(reply) == reply \notin {ReplyNotFound, ReplyRejected, ReplyConflict}

\* a Read that returns the diagnostic for a 404 as for any other error
ReadErrorOutcomeNoAbsorb(reply) ==
    IF AsServerErrorIsNil(reply) THEN Panic ELSE ErrRead

\* Lines 400-406.  What Read does with a non-nil err: "clear" the id and
\* return nil, return a diagnostic, or dereference the nil *api.Error in
\* apiErr.Response() at line 401.
ReadErrorOutcome(reply) ==
    IF AsServerErrorIsNil(reply) THEN Panic
    ELSE IF reply = ReplyNotFound THEN "clear"
    ELSE ErrRead

resourceAuthMethodRead(d, fault) ==
    LET reply == ReplyTo(d.id, fault)
        raw == IF reply = ReplyOk THEN ResponseMap(d.id, remote[d.id]) ELSE NoRaw
        dec == setFromAuthMethodResponseMap(d, raw)
    IN  IF reply \in ErrorReplies
        THEN IF ReadErrorOutcome(reply) = "clear"
             THEN Outcome([d EXCEPT !.id = ""], NoError, 1, reply, {"id"},
                          NoOptions, NoVersioning, NoRaw, remote)
             ELSE Outcome(d, ReadErrorOutcome(reply), 1, reply, {}, NoOptions,
                          NoVersioning, NoRaw, remote)
        ELSE IF reply = ReplyNil
        THEN Outcome(d, ErrNilRead, 1, reply, {}, NoOptions, NoVersioning,
                     NoRaw, remote)
        ELSE Outcome(dec.d, dec.err, 1, reply, dec.wrote, NoOptions,
                     NoVersioning, raw, remote)

----------------------------------------------------------------------------
(* resourceAuthMethodUpdate (lines 418-547).                               *)

\* an Update that sends the version it saw last and no automatic marker
UpdateVersioningCached(cached) == [version |-> cached, auto |-> FALSE]

\* lines 519-520: WithAutomaticVersioning(true) and version 0; cached is
\* the version of the last response the handlers saw, which Update ignores
UpdateVersioning(cached) == [version |-> 0, auto |-> TRUE]

\* the service refuses an update whose version is not the record's, unless
\* the request asks for automatic versioning
VersionAccepted(req, rec) == req.auto \/ req.version = rec.version

\* the keys of the state assignments after the call (lines 525-544)
TailKeys ==
    {NameKey, DescriptionKey, authmethodMinLoginNameLengthKey,
     authmethodMinPasswordLengthKey}

\* an Update that issues the remote call whatever opts holds
UpdateCallsAlways(opts) == TRUE

\* Update issues the remote call (line 518)
UpdateCalls(opts) == NumOptions(opts) > 0

\* d holds the planned fields new; old are the stored ones
resourceAuthMethodUpdate(d, old, fault) ==
    LET new == d.f
        opts == UpdateOptions(old, new)
        req == UpdateVersioning(observed)
        reply == IF fault # "none" THEN fault
                 ELSE IF ~Exists(d.id) THEN ReplyNotFound
                 ELSE IF ~VersionAccepted(req, remote[d.id]) THEN ReplyConflict
                 ELSE ReplyOk
        rec == [present |-> TRUE, version |-> remote[d.id].version + 1,
                f |-> ApplyOptions(remote[d.id].f, opts)]
        \* lines 525-544 store the caller's values of the changed keys: the
        \* values d already holds, so the fields of d stay as planned
        tail == ChangedKeys(old, new) \cap TailKeys
    IN  IF UpdatePanics(old, new)
        THEN Outcome(d, Panic, 0, ReplyNone, {}, NoOptions, NoVersioning,
                     NoRaw, remote)
        ELSE IF new[TypeKey] \notin ValidTypes
        THEN Outcome(d, errorInvalidAuthMethodType, 0, ReplyNone, {},
                     NoOptions, NoVersioning, NoRaw, remote)
        ELSE IF ~UpdateCalls(opts)
        THEN Outcome(d, NoError, 0, ReplyNone, tail, opts, NoVersioning,
                     NoRaw, remote)
        ELSE IF reply \in ErrorReplies
        THEN Outcome(d, ErrUpdate, 1, reply, {}, opts, req, NoRaw, remote)
        ELSE Outcome(d, NoError, 1, reply, tail, opts, req,
                     ResponseMap(d.id, rec), [remote EXCEPT ![d.id] = rec])

----------------------------------------------------------------------------
(* resourceAuthMethodDelete (lines 549-559).                               *)

\* a Delete that returns success whatever the service answered
DeleteReplyErrorNone(reply) == NoError

\* a Delete that takes a 404 for success
DeleteReplyErrorAbsorb(reply) ==
    IF reply \in ErrorReplies \ {ReplyNotFound} THEN ErrDelete ELSE NoError

\* lines 554-556: the diagnostics for a reply of amClient.Delete
DeleteReplyError(reply) ==
    IF reply \in ErrorReplies THEN ErrDelete ELSE NoError

resourceAuthMethodDelete(d, fault) ==
    LET reply == ReplyTo(d.id, fault)
    IN  IF reply = ReplyOk
        THEN Outcome(d, DeleteReplyError(reply), 1, reply, {}, NoOptions,
                     NoVersioning, NoRaw, [remote EXCEPT ![d.id] = NoRecord])
        ELSE Outcome(d, DeleteReplyError(reply), 1, reply, {}, NoOptions,
                     NoVersioning, NoRaw, remote)

----------------------------------------------------------------------------
(* The configurations the host hands to Create and Update: for every key   *)
(* whether the configuration sets it, and the value it sets.               *)

FieldValues(names, descriptions, scopes, types, logins, passwords, issuers, ages, certs, audiences) ==
    [name : names, description : descriptions, scope_id : scopes,
     type : types, min_login_name_length : logins,
     min_password_length : passwords, state : {""}, issuer : issuers,
     client_id : {""}, client_secret : {""}, client_secret_hmac : {""},
     max_age : ages, signing_algorithms : {<<>>}, api_url_prefix : {""},
     callback_url : {""}, ca_certificates : certs,
     allowed_audiences : audiences,
     disable_discovered_config_validation : {FALSE}]

\* password auth methods of one scope: a name, a login name length
PasswordValues ==
    FieldValues({"", "a"}, {""}, {"global"}, {authmethodTypePassword},
                {0, 5}, {0}, {""}, {0}, {<<>>}, {<<>>})

\* OIDC auth methods of one scope, with and without the attributes the
\* service leaves out of its response when they hold no value
OidcValues ==
    FieldValues({""}, {""}, {"global"}, {authmethodTypeOidc}, {0}, {0},
                {"https://idp"}, {3600},
                {<< <<" ", "A", " ">>, <<"B">> >>}, {<< <<"aud">> >>})
        \cup FieldValues({""}, {""}, {"global"}, {authmethodTypeOidc}, {0},
                         {0}, {""}, {3600}, {<<>>}, {<<>>})

\* a type or a scope that is not set, and a type that is not valid
TypeScopeValues ==
    FieldValues({""}, {""}, {"", "global"},
                {"", authmethodTypePassword, "ldap"},
                {0}, {0}, {""}, {0}, {<<>>}, {<<>>})

\* the keys a configuration sets to a value that is not the zero value
NonZeroKeys(v) == {k \in FieldKeys : v[k] # ZeroFields[k]}

\* a password configuration that sets min_login_name_length to 0
ExplicitZeroConfig ==
    [set |-> {TypeKey, ScopeIdKey, authmethodMinLoginNameLengthKey},
     v |-> [k \in FieldKeys |->
                IF k = TypeKey THEN authmethodTypePassword
                ELSE IF k = ScopeIdKey THEN "global"
                ELSE ZeroFields[k]]]

Configs ==
    {[set |-> NonZeroKeys(v), v |-> v] :
        v \in PasswordValues \cup OidcValues \cup TypeScopeValues}
        \cup {ExplicitZeroConfig}

----------------------------------------------------------------------------
(* The state machine.                                                      *)

Init ==
    /\ local = EmptyData
    /\ remote = [i \in Ids |-> NoRecord]
    /\ nextId = 1
    /\ observed = 0
    /\ last = [op |-> "Init", id |-> "", found |-> FALSE,
               input |-> ZeroFields, set |-> {}, changed |-> {},
               cached |-> 0, err |-> NoError, calls |-> 0, reply |-> ReplyNone,
               wrote |-> {}, opts |-> NoOptions, req |-> NoVersioning,
               raw |-> NoRaw]

\* What the host keeps of the ResourceData a handler worked on: the d the
\* handler left, no state for a d whose id is empty, and the state it had
\* when the handler did not return.
Kept(out) ==
    IF out.err = Panic THEN local
    ELSE IF out.d.id = "" THEN EmptyData
    ELSE out.d

\* a handler ran on d and ended with out; the host keeps the state keep
FinishCfg(op, d, set, changed, out, keep) ==
    /\ local' = keep
    /\ remote' = out.store
    /\ observed' = IF out.raw = NoRaw THEN observed ELSE out.raw.version
    /\ last' = [op |-> op, id |-> d.id, found |-> Exists(d.id),
                input |-> d.f, set |-> set, changed |-> changed,
                cached |-> observed, err |-> out.err, calls |-> out.calls,
                reply |-> out.reply, wrote |-> out.wrote, opts |-> out.opts,
                req |-> out.req, raw |-> out.raw]

\* a handler that reads no configuration (Read, Delete)
Finish(op, d, changed, out, keep) == FinishCfg(op, d, {}, changed, out, keep)

\* Create on a fresh ResourceData that holds the configuration
Create ==
    /\ local.id = ""
    /\ nextId <= MaxIds
    /\ \E cfg \in Configs, fault \in Faults :
         LET d == [id |-> "", f |-> Planned(ZeroFields, cfg)]
             out == resourceAuthMethodCreate(d, fault, IdNames[nextId])
         IN  /\ FinishCfg("Create", d, cfg.set, {}, out, Kept(out))
             /\ nextId' = IF out.store = remote THEN nextId ELSE nextId + 1

\* Read (refresh) of the stored record
Read ==
    /\ local.id # ""
    /\ \E fault \in Faults :
         LET out == resourceAuthMethodRead(local, fault)
         IN  /\ Finish("Read", local, {}, out, Kept(out))
             /\ UNCHANGED nextId

\* scope_id and type are ForceNew (lines 66-77): the host calls Update only
\* for a configuration that leaves them as they are stored
UpdateAllowed(stored, cfg) ==
    \A k \in ForceNewKeys : Planned(stored, cfg)[k] = stored[k]

\* Update of the stored record towards a configuration
Update ==
    /\ local.id # ""
    /\ \E cfg \in Configs, fault \in ErrFaults :
         LET d == [id |-> local.id, f |-> Planned(local.f, cfg)]
             out == resourceAuthMethodUpdate(d, local.f, fault)
         IN  /\ UpdateAllowed(local.f, cfg)
             /\ out.store # remote => remote[local.id].version < MaxVersion
             /\ FinishCfg("Update", d, cfg.set, ChangedKeys(local.f, d.f), out,
                          Kept(out))
             /\ UNCHANGED nextId

\* Delete of the stored record; the host drops the state of a resource whose
\* Delete returned no error, whatever the handler left in d
Delete ==
    /\ local.id # ""
    /\ \E fault \in ErrFaults :
         LET out == resourceAuthMethodDelete(local, fault)
         IN  /\ Finish("Delete", local, {}, out,
                       IF out.err = NoError THEN EmptyData ELSE local)
             /\ UNCHANGED nextId

\* Import (lines 46-48): schema.ImportStatePassthroughContext makes the id
\* given on import the id of an otherwise empty ResourceData and the host
\* runs Read on it; an import whose Read fails leaves no state.
Import ==
    /\ local.id = ""
    /\ \E id \in Ids, fault \in Faults :
         LET d == [EmptyData EXCEPT !.id = id]
             out == resourceAuthMethodRead(d, fault)
         IN  /\ Finish("Import", d, {}, out,
                       IF out.err = NoError THEN Kept(out) ELSE EmptyData)
             /\ UNCHANGED nextId

\* what a step of another client of the service leaves in last
External(op) ==
    [op |-> op, id |-> "", found |-> FALSE, input |-> ZeroFields,
     set |-> {}, changed |-> {}, cached |-> observed, err |-> NoError, calls |-> 0, reply |-> ReplyNone,
     wrote |-> {}, opts |-> NoOptions, req |-> NoVersioning, raw |-> NoRaw]

\* another writer renames a record, which advances its version
ExternalWrite ==
    \E id \in Ids, name \in {"renamed"} :
        /\ Exists(id)
        /\ remote[id].version < MaxVersion
        /\ remote[id].f[NameKey] # name
        /\ remote' = [remote EXCEPT ![id].version = @ + 1,
                                    ![id].f[NameKey] = name]
        /\ last' = External("ExternalWrite")
        /\ UNCHANGED <<local, nextId, observed>>

\* the record vanishes from the service
ExternalDelete ==
    \E id \in Ids :
        /\ Exists(id)
        /\ remote' = [remote EXCEPT ![id] = NoRecord]
        /\ last' = External("ExternalDelete")
        /\ UNCHANGED <<local, nextId, observed>>

\* another client creates an auth method, of a type this provider knows or
\* of one it does not know
ExternalCreate ==
    /\ nextId <= MaxIds
    /\ \A id \in Ids : ~Exists(id)
    /\ \E typeStr \in {authmethodTypePassword, "ldap"} :
         remote' = [remote EXCEPT ![IdNames[nextId]] =
            [present |-> TRUE, version |-> 1,
             f |-> NewRecordFields(typeStr, "global", NoOptions)]]
    /\ nextId' = nextId + 1
    /\ last' = External("ExternalCreate")
    /\ UNCHANGED <<local, observed>>

Next ==
    \/ Create
    \/ Read
    \/ Update
    \/ Delete
    \/ Import
    \/ ExternalWrite
    \/ ExternalDelete
    \/ ExternalCreate

Spec == Init /\ [][Next]_vars

----------------------------------------------------------------------------
(* The handlers called directly, one call from each state the lifecycle    *)
(* can leave, with no host between the caller and the handler: Update      *)
(* also gets configurations that change scope_id or type.                  *)

\* configurations whose Create succeeds
SeedConfigs ==
    {cfg \in Configs :
        /\ CreateValidation(Planned(ZeroFields, cfg)) = NoError
        /\ cfg.v[authmethodOidcMaxAgeKey] = 0 \/ cfg.v[authmethodOidcIssuerKey] # ""}

\* the record a successful Create of cfg leaves in the service
SeedRecord(cfg) ==
    LET f == Planned(ZeroFields, cfg)
    IN  [present |-> TRUE, version |-> 1,
         f |-> NewRecordFields(f[TypeKey], f[ScopeIdKey], CreateOptions(f))]

\* the state a successful Create of cfg leaves with the host
SeedLocal(cfg) ==
    setFromAuthMethodResponseMap([id |-> "", f |-> Planned(ZeroFields, cfg)],
                                 ResponseMap(IdNames[1], SeedRecord(cfg))).d

\* the record after another writer renamed it
Renamed(rec) ==
    [rec EXCEPT !.version = @ + 1, !.f[NameKey] = "renamed"]

\* local state, the record of the first id, ids handed out, version seen
DirectStates ==
    {[local |-> EmptyData, rec |-> NoRecord, nextId |-> 1, observed |-> 0]}
    \cup {[local |-> EmptyData, nextId |-> 2, observed |-> 0,
           rec |-> [present |-> TRUE, version |-> 1,
                    f |-> NewRecordFields("ldap", "global", NoOptions)]]}
    \cup UNION {{[local |-> SeedLocal(cfg), rec |-> rec, nextId |-> 2,
                  observed |-> 1] :
                    rec \in {SeedRecord(cfg), Renamed(SeedRecord(cfg)),
                             NoRecord}} : cfg \in SeedConfigs}

InitDirect ==
    \E pre \in DirectStates :
        /\ local = pre.local
        /\ remote = [i \in Ids |-> IF i = IdNames[1] THEN pre.rec ELSE NoRecord]
        /\ nextId = pre.nextId
        /\ observed = pre.observed
        /\ last = [op |-> "Init", id |-> "", found |-> FALSE,
                   input |-> ZeroFields, set |-> {}, changed |-> {},
                   cached |-> 0, err |-> NoError, calls |-> 0,
                   reply |-> ReplyNone, wrote |-> {}, opts |-> NoOptions,
                   req |-> NoVersioning, raw |-> NoRaw]

\* configurations of another scope, another type, a type that is not valid
OtherValues ==
    FieldValues({"", "b"}, {"", "text"}, {"global", "o_1"},
                {authmethodTypePassword, authmethodTypeOidc, "ldap"},
                {0, 5}, {0}, {""}, {0}, {<<>>}, {<<>>})

\* configurations that carry fields of both blocks (lines 78-175: neither
\* block excludes the other)
MixedValues ==
    FieldValues({""}, {""}, {"global"}, {authmethodTypePassword}, {0}, {0},
                {""}, {3600}, {<<>>}, {<<>>})
        \cup FieldValues({""}, {""}, {"global"}, {authmethodTypeOidc}, {5},
                         {0}, {"https://idp"}, {3600}, {<< <<"B">> >>},
                         {<< <<"aud">> >>})

\* an OIDC configuration that sets max_age to 0
ExplicitZeroOidcConfig ==
    [set |-> {TypeKey, ScopeIdKey, authmethodOidcMaxAgeKey},
     v |-> [k \in FieldKeys |->
                IF k = TypeKey THEN authmethodTypeOidc
                ELSE IF k = ScopeIdKey THEN "global"
                ELSE ZeroFields[k]]]

\* OIDC configurations that set client_secret_hmac (Optional in the schema,
\* lines 121-125) or another max_age, with the lists as the decoder stores
\* them
HmacValues ==
    {[v EXCEPT ![authmethodOidcClientSecretHmacKey] = h] :
        v \in FieldValues({""}, {""}, {"global"}, {authmethodTypeOidc}, {0},
                          {0}, {"https://idp"}, {3600, 7200},
                          {<< <<"A">>, <<"B">> >>}, {<< <<"aud">> >>}),
        h \in {"", "h"}}

\* an OIDC configuration that sets ca_certificates to the empty list
ExplicitEmptyCertsConfig ==
    [set |-> {TypeKey, ScopeIdKey, authmethodOidcIssuerKey,
              authmethodOidcMaxAgeKey, authmethodOidcAllowedAudiencesKey,
              authmethodOidcCaCertificatesKey},
     v |-> [k \in FieldKeys |->
                IF k = TypeKey THEN authmethodTypeOidc
                ELSE IF k = ScopeIdKey THEN "global"
                ELSE IF k = authmethodOidcIssuerKey THEN "https://idp"
                ELSE IF k = authmethodOidcMaxAgeKey THEN 3600
                ELSE IF k = authmethodOidcAllowedAudiencesKey
                     THEN << <<"aud">> >>
                ELSE ZeroFields[k]]]

\* OIDC configurations that set disable_discovered_config_validation, with
\* and without api_url_prefix
DisableValues ==
    {[v EXCEPT ![authmethodOidcDisableDiscoveredConfigValidationKey] = TRUE,
               ![authmethodOidcApiUrlPrefixKey] = prefix] :
        v \in FieldValues({""}, {""}, {"global"}, {authmethodTypeOidc}, {0},
                          {0}, {"https://idp"}, {3600},
                          {<< <<"A">>, <<"B">> >>}, {<< <<"aud">> >>}),
        prefix \in {"", "https://api"}}

\* OIDC configurations whose list elements carry white space on either
\* side
WhiteSpaceValues ==
    FieldValues({""}, {""}, {"global"}, {authmethodTypeOidc}, {0}, {0},
                {"https://idp"}, {3600},
                {<< <<"A", " ">>, <<"\n", "B", "\t">> >>},
                {<< <<" ", "x">>, <<"y">> >>, << <<"y">>, <<"x", " ">> >>})

DirectConfigs ==
    Configs \cup {[set |-> NonZeroKeys(v), v |-> v] :
                        v \in OtherValues \cup MixedValues \cup HmacValues
                                \cup DisableValues \cup WhiteSpaceValues}
            \cup {ExplicitZeroOidcConfig, ExplicitEmptyCertsConfig}

DirectCreate ==
    /\ last.op = "Init"
    /\ local.id = ""
    /\ nextId <= MaxIds
    /\ \E cfg \in DirectConfigs, fault \in Faults :
         LET d == [id |-> "", f |-> Planned(ZeroFields, cfg)]
             out == resourceAuthMethodCreate(d, fault, IdNames[nextId])
         IN  /\ FinishCfg("Create", d, cfg.set, {}, out, Kept(out))
             /\ nextId' = IF out.store = remote THEN nextId ELSE nextId + 1

DirectRead ==
    /\ last.op = "Init"
    /\ local.id # ""
    /\ \E fault \in Faults :
         LET out == resourceAuthMethodRead(local, fault)
         IN  /\ Finish("Read", local, {}, out, Kept(out))
             /\ UNCHANGED nextId

\* Update with any configuration; the state keeps what the handler left in d
DirectUpdate ==
    /\ last.op = "Init"
    /\ local.id # ""
    /\ \E cfg \in DirectConfigs, fault \in ErrFaults :
         LET d == [id |-> local.id, f |-> Planned(local.f, cfg)]
             out == resourceAuthMethodUpdate(d, local.f, fault)
         IN  /\ FinishCfg("Update", d, cfg.set, ChangedKeys(local.f, d.f), out,
                          Kept(out))
             /\ UNCHANGED nextId

DirectDelete ==
    /\ last.op = "Init"
    /\ local.id # ""
    /\ \E fault \in ErrFaults :
         LET out == resourceAuthMethodDelete(local, fault)
         IN  /\ Finish("Delete", local, {}, out,
                       IF out.err = NoError THEN EmptyData ELSE local)
             /\ UNCHANGED nextId

DirectImport ==
    /\ last.op = "Init"
    /\ local.id = ""
    /\ \E id \in Ids, fault \in Faults :
         LET d == [EmptyData EXCEPT !.id = id]
             out == resourceAuthMethodRead(d, fault)
         IN  /\ Finish("Import", d, {}, out,
                       IF out.err = NoError THEN Kept(out) ELSE EmptyData)
             /\ UNCHANGED nextId

NextDirect ==
    \/ DirectCreate
    \/ DirectRead
    \/ DirectUpdate
    \/ DirectDelete
    \/ DirectImport

SpecDirect == InitDirect /\ [][NextDirect]_vars

----------------------------------------------------------------------------
(* Properties.  last holds the handler call that led to the state: the     *)
(* operation, the d it started on (id, input), whether the service held    *)
(* the record (found), and what the call returned and did.                 *)

\* C1: a Read (also the Read of an import) that the service answers with a
\* structured 404 returns no diagnostics and clears the id, so that no
\* local record is left, whether the record vanished after a Create or
\* never was there.
C1_ReadAbsorbsNotFound ==
    (last.op \in {"Read", "Import"} /\ last.reply = ReplyNotFound)
        => /\ last.err = NoError
           /\ last.calls = 1
           /\ last.wrote = {"id"}
           /\ local = EmptyData

\* C1 witness: the record of a created auth method vanished and Read got 404
C1_Witness ==
    /\ last.op = "Read"
    /\ last.reply = ReplyNotFound
    /\ last.input[TypeKey] \in ValidTypes
    /\ last.id # ""
    /\ local.id = ""

\* C2 as the specification states it: a Delete that the service answers
\* with not found returns success.
C2_DeleteIdempotent ==
    (last.op = "Delete" /\ last.reply = ReplyNotFound) => last.err = NoError

\* C3: an Update in which no field changed issues no remote call, returns
\* no diagnostics, and leaves the local record and the remote record, its
\* version included, as they were.
C3_UpdateNoChange ==
    [][(last'.op = "Update" /\ last'.changed = {})
          => /\ last'.calls = 0
             /\ last'.err = NoError
             /\ local' = local
             /\ remote' = remote]_vars

\* C3 witness: an Update without a change on a record the service holds
C3_Witness ==
    /\ last.op = "Update"
    /\ last.changed = {}
    /\ last.found
    /\ last.calls = 0
    /\ local.id = last.id

C5_AutomaticVersioning ==
    (last.op = "Update" /\ last.calls = 1)
        => /\ last.req.auto
           /\ last.req.version = 0
           /\ last.reply # ReplyConflict

\* C5 witness: an Update succeeded on a record whose version another writer
\* had advanced past the one this side saw last
C5_Witness ==
    /\ last.op = "Update"
    /\ last.calls = 1
    /\ last.reply = ReplyOk
    /\ last.cached >= 1
    /\ last.raw.version > last.cached + 1

\* C6 as the specification states it: a Create whose type or scope_id is
\* absent fails with a missing-required-field diagnostic, issues no remote
\* call and changes no local field.
C6_MissingRequiredField ==
    (last.op = "Create"
        /\ (last.input[TypeKey] = "" \/ last.input[ScopeIdKey] = ""))
        => /\ last.err \in {ErrNoType, ErrNoScopeId}
           /\ last.calls = 0
           /\ last.wrote = {}
           /\ local.id = ""

\* C6 amended: a Create whose type or scope_id is absent issues no remote
\* call and changes no local field; it fails with the missing-type
\* diagnostic when the type is absent, with the invalid-type diagnostic
\* when the type is set but not valid (the type is examined before the
\* scope), and with the missing-scope diagnostic otherwise.
C6_CreateValidationOrder ==
    (last.op = "Create"
        /\ (last.input[TypeKey] = "" \/ last.input[ScopeIdKey] = ""))
        => /\ last.err =
                IF last.input[TypeKey] = "" THEN ErrNoType
                ELSE IF last.input[TypeKey] \notin {"password", "oidc"}
                     THEN errorInvalidAuthMethodType
                ELSE ErrNoScopeId
           /\ last.calls = 0
           /\ last.wrote = {}
           /\ local = EmptyData

\* C6 witness: a Create with a valid type and no scope_id was refused
C6_Witness ==
    /\ last.op = "Create"
    /\ last.input[TypeKey] = "password"
    /\ last.input[ScopeIdKey] = ""
    /\ last.err = ErrNoScopeId

C8_InvalidMethodType ==
    /\ (last.op \in {"Create", "Update"}
            /\ last.input[TypeKey] \notin {"", "password", "oidc"})
         => (last.err = errorInvalidAuthMethodType /\ last.calls = 0)
    /\ (last.raw # NoRaw /\ last.op \in {"Create", "Read", "Import"}
            /\ last.raw.type \notin {"password", "oidc"})
         => /\ last.err = errorInvalidAuthMethodType
            /\ "id" \notin last.wrote
            /\ local.id \in {"", last.id}

\* C8 witness: an Update towards a type that is not valid was refused
C8_Witness ==
    /\ last.op = "Update"
    /\ last.input[TypeKey] = "ldap"
    /\ TypeKey \in last.changed
    /\ last.err = errorInvalidAuthMethodType
    /\ last.calls = 0

\* C9 as the specification states it: an Update or a Delete of a record
\* the service does not hold fails with not found (here: whenever the
\* service answered at all).
C9_AbsentFailsNotFound ==
    (last.op \in {"Update", "Delete"} /\ ~last.found
        /\ last.reply \notin {ReplyRejected, ReplyTransport})
        => (last.err \in {ErrUpdate, ErrDelete} /\ last.reply = ReplyNotFound)

\* C9 amended: a Delete of a record the service does not hold fails with
\* the diagnostic of the failed remote call (not found when the service
\* answers); an Update of such a record fails likewise when it has an
\* option to send, but issues no call and returns success when no field
\* changed; in both the record stays absent, and of the operations only
\* Create (or another client of the service) brings a record into being.
C9_AbsentStaysAbsent ==
    [][/\ (last'.op \in {"Update", "Delete"} /\ ~last'.found)
            => /\ ~remote'[last'.id].present
               /\ last'.op = "Delete"
                    => (last'.err = ErrDelete /\ last'.calls = 1)
               /\ (last'.op = "Update" /\ last'.calls = 1)
                    => last'.err = ErrUpdate
               /\ (last'.op = "Update" /\ last'.changed = {})
                    => (last'.err = NoError /\ last'.calls = 0)
               /\ last'.calls = 1
                    => last'.reply \in {ReplyNotFound, ReplyRejected,
                                        ReplyTransport}
       /\ \A id \in Ids :
            (~Exists(id) /\ Exists(id)')
                => last'.op \in {"Create", "ExternalCreate"}]_vars

\* C9 witness: an Update without a change on a record that vanished from
\* the service returned success
C9_Witness ==
    /\ last.op = "Update"
    /\ ~last.found
    /\ last.changed = {}
    /\ last.err = NoError
    /\ last.calls = 0
    /\ local.id # ""

\* C10 as the specification states it: a Read whose remote call fails with
\* a transport failure or a structured error other than 404 returns the
\* read diagnostic and leaves the local record as it was.
C10_ReadFailureIsDiagnostic ==
    (last.op = "Read" /\ last.reply \in {ReplyTransport, ReplyRejected})
        => /\ last.err = ErrRead
           /\ local.id = last.id
           /\ local.f = last.input

\* C11: after a Delete that returns success the service holds no record
\* under the id, a remote read of the id answers 404, and a Read of the id
\* clears it without a diagnostic; the service never hands the id out
\* again, so this stays so.
C11_DeleteRemoves ==
    [][/\ (last'.op = "Delete" /\ last'.err = NoError)
            => /\ last'.calls = 1
               /\ ~remote'[last'.id].present
               /\ local' = EmptyData
               /\ (ReplyTo(last.id, "none") = ReplyNotFound)'
               /\ (LET out == resourceAuthMethodRead(
                                 [EmptyData EXCEPT !.id = last.id], "none")
                   IN  out.err = NoError /\ out.d.id = "")'
       /\ \A id \in Ids :
            (~Exists(id) /\ remote'[id].present)
                => (id = IdNames[nextId] /\ nextId' = nextId + 1)]_vars

\* C11 witness: a Delete of a record the service held returned success
C11_Witness ==
    /\ last.op = "Delete"
    /\ last.err = NoError
    /\ last.found
    /\ last.reply = ReplyOk
    /\ ~Exists(last.id)

\* C12 as the specification states it: after every Create, Read and Update
\* that succeeds (an Update that leaves scope_id and type as they were) the
\* local record holds attributes of the variant of its type only, and the
\* request carried options of that variant only.
C12_VariantMatchesType ==
    (last.op \in {"Create", "Read", "Update"} /\ last.err = NoError
        /\ last.changed \cap ForceNewKeys = {} /\ local.id # "")
        => /\ local.f[TypeKey] = "password"
                => \A k \in FieldKeys \ (CommonKeys \cup PasswordCreateKeys) :
                        local.f[k] = ZeroFields[k]
           /\ local.f[TypeKey] = "oidc"
                => \A k \in PasswordCreateKeys : local.f[k] = ZeroFields[k]
           /\ \A k \in OptionKeys :
                (last.opts[k].set \/ last.opts[k].def)
                    => k \in {NameKey, DescriptionKey}
                         \cup (IF last.input[TypeKey] = "password"
                               THEN PasswordCreateKeys
                               ELSE OptionKeys \ PasswordCreateKeys)

\* C13 as the specification states it: for every changed field of the
\* active variant (name, description, the password lengths, the settable
\* OIDC fields) the update request carries the reset marker of the field
\* when the field became unset and its set option with the new value when
\* it has a new value.
C13_ChangedFieldsCarried ==
    (last.op = "Update" /\ last.changed \cap ForceNewKeys = {}
        /\ last.input[TypeKey] \in {"password", "oidc"})
        => \A k \in last.changed
                    \cap ({NameKey, DescriptionKey}
                            \cup (IF last.input[TypeKey] = "password"
                                  THEN PasswordCreateKeys
                                  ELSE OidcCreateKeys)) :
              IF last.input[k] = ZeroFields[k]
              THEN last.opts[k].def
              ELSE /\ last.opts[k].set
                   /\ last.opts[k].val =
                        (IF k = "ca_certificates" THEN TrimAll(last.input[k])
                         ELSE last.input[k])

C15_SetIffConfigured ==
    (last.op = "Create" /\ last.calls = 1)
        => \A k \in (IF last.input[TypeKey] = "password"
                     THEN PasswordCreateKeys
                     ELSE {"issuer", "client_id", "client_secret", "max_age",
                           "api_url_prefix",
                           "disable_discovered_config_validation"}) :
              last.opts[k].set = (k \in last.set)

\* C16 as the specification states it: a Create that reaches the service,
\* or an Update in which ca_certificates changed, of an OIDC record whose
\* configuration sets ca_certificates to the empty list sends the set
\* option of ca_certificates with the empty list.
C16_EmptyCertsAreSent ==
    (/\ last.op \in {"Create", "Update"}
     /\ last.input[TypeKey] = "oidc"
     /\ "ca_certificates" \in last.set
     /\ last.input["ca_certificates"] = <<>>
     /\ last.op = "Create" => last.calls = 1
     /\ last.op = "Update" => "ca_certificates" \in last.changed)
        => /\ last.opts["ca_certificates"].set
           /\ last.opts["ca_certificates"].val = <<>>

\* C17 as the specification states it: decoding an OIDC response that
\* carries every attribute the decoder reads unconditionally does not
\* fail; api_url_prefix, callback_url and
\* disable_discovered_config_validation keep the local value when the
\* response leaves the key out and take the response value (a string, a
\* string, a bool) when it carries the key.
C17_OptionalKeysDecoded ==
    (/\ last.op \in {"Create", "Read", "Import"}
     /\ last.reply = ReplyOk
     /\ last.raw.type = "oidc"
     /\ OidcAlwaysKeys \subseteq DOMAIN last.raw.attrs)
        => /\ last.err = NoError
           /\ \A k \in {"api_url_prefix", "callback_url",
                        "disable_discovered_config_validation"} :
                local.f[k] =
                    IF k \notin DOMAIN last.raw.attrs THEN last.input[k]
                    ELSE IF k = "disable_discovered_config_validation"
                         THEN last.raw.attrs[k].b
                    ELSE last.raw.attrs[k].s

\* C18 as the specification states it: decoding a response of a valid type
\* never aborts the operation; a response that carries the required
\* attributes of its variant but leaves out ca_certificates,
\* allowed_audiences or max_age is decoded with success.
C18_DecodeReturns ==
    (/\ last.op \in {"Create", "Read", "Import"}
     /\ last.reply = ReplyOk
     /\ last.raw.type \in {"password", "oidc"})
        => /\ last.err # Panic
           /\ (/\ last.raw.type = "oidc"
               /\ {"state", "issuer", "client_id", "client_secret_hmac"}
                      \subseteq DOMAIN last.raw.attrs
               /\ "disable_discovered_config_validation"
                      \notin DOMAIN last.raw.attrs
               /\ {"ca_certificates", "allowed_audiences", "max_age"}
                      \ DOMAIN last.raw.attrs # {})
                => last.err = NoError

C20_ExactlyOneRequest ==
    (last.op \in {"Create", "Read", "Import", "Update", "Delete"}
        /\ last.changed \cap ForceNewKeys = {})
        => /\ last.calls \in {0, 1}
           /\ (last.calls = 0)
                = \/ /\ last.op = "Create"
                     /\ \/ last.input[TypeKey] \notin {"password", "oidc"}
                        \/ last.input[ScopeIdKey] = ""
                  \/ /\ last.op = "Update"
                     /\ \/ last.input[TypeKey] \notin {"password", "oidc"}
                        \/ last.changed = {}

\* C21 as the specification states it: after an Update that returned no
\* error and changed at least one field, every field of the local record
\* holds the value the service holds for the updated record, as the decoder
\* stores it from a response, so a Read right after it (no remote change in
\* between) modifies no local field.
C21_UpdateStoresResponse ==
    (last.op = "Update" /\ last.err = NoError /\ last.changed # {}
        /\ Exists(local.id)
        /\ ~DecodePanics(ResponseMap(local.id, remote[local.id])))
        => /\ \A k \in DecodedKeys(ResponseMap(local.id, remote[local.id])) :
                local.f[k] = DecodedValue(k, ResponseMap(local.id, remote[local.id]))
           /\ resourceAuthMethodRead(local, "none").d = local

\* C22 as the specification states it: Update builds no option from a
\* read-only OIDC field (state, client_secret_hmac, callback_url): the
\* request holds no option under client_secret_hmac, an Update in which
\* only client_secret_hmac changed holds no option at all, and every
\* set-client-secret option of the request carries the configured
\* client_secret.
C22_NoOptionFromReadOnly ==
    last.op = "Update"
        => /\ ~last.opts[authmethodOidcClientSecretHmacKey].set
           /\ ~last.opts[authmethodOidcClientSecretHmacKey].def
           /\ last.changed = {authmethodOidcClientSecretHmacKey}
                => NumOptions(last.opts) = 0 /\ last.calls = 0
           /\ \A k \in {authmethodOidcClientSecretKey,
                        authmethodOidcClientSecretHmacKey} :
                last.opts[k].set
                    => last.opts[k].val = last.input[authmethodOidcClientSecretKey]

\* C23: a Create whose remote call returns a nil result and no error ends
\* with the diagnostic "nil auth method after create", after one remote
\* call, without d.SetId and without any d.Set: the local id stays empty
\* and no local field changes.  A Create whose remote call returns an error
\* ends with the create diagnostic and leaves the local id empty as well.
C23_CreateNilOrError ==
    last.op = "Create"
        => /\ last.reply = ReplyNil
                => /\ last.err = ErrNilCreate
                   /\ last.calls = 1
                   /\ last.wrote = {}
                   /\ local = EmptyData
           /\ last.reply \in ErrorReplies
                => /\ last.err = ErrCreate
                   /\ last.wrote = {}
                   /\ local.id = ""

\* a Create of a named password auth method got a nil result and no error
C23_Witness ==
    /\ last.op = "Create"
    /\ last.reply = ReplyNil
    /\ last.err = ErrNilCreate
    /\ last.input[TypeKey] = authmethodTypePassword
    /\ last.input[NameKey] = "a"
    /\ local = EmptyData

====
